---- MODULE Spec2Model ----
(***************************************************************************)
(* Model of src/app.py: the per-doctor statistics engine                   *)
(* calculate_doctor_performance, fed by preprocess_data.                   *)
(*                                                                         *)
(* A DataFrame is a set of column names (cols) and a bag of rows.  Every   *)
(* output of the engine is a per-doctor aggregate or a row filter, so the  *)
(* order of the rows is not modelled; their multiplicity is.               *)
(*                                                                         *)
(* Column names (source -> model):                                         *)
(*   诊疗医生 doctor        身份证号 pid          就诊日期 visit_date      *)
(*   建档日期 file_date     签约日期 sign_date    团队名称 team            *)
(*   是否本机构建档 local_file      是否外机构建档 ext_file                *)
(*   是否本机构签约 local_sign      是否外机构签约 ext_sign                *)
(* Helper columns added by the engine:                                     *)
(*   健康小屋-yey hut   非健康小屋的本机构签约 non_hut_local_sign          *)
(*   未建档 unfiled     未签约 unsigned                                    *)
(*   建档日期_日期 file_date_date   就诊日期_日期 visit_date_date          *)
(*                                                                         *)
(* The window is always two dates, as main() passes.  A record set        *)
(* without a 就诊日期 column is left as read by preprocess_data; the model  *)
(* takes such a file to hold typed cells (numbers for the flags).          *)
(***************************************************************************)
EXTENDS Integers, FiniteSets, Sequences, Bags, TLC

VARIABLES cols, rows, start_date, end_date, pc, out, session_state

vars == <<cols, rows, start_date, end_date, pc, out, session_state>>

----------------------------------------------------------------------------
(* Bounds *)

\* rows a loaded file holds at most, where the rows vary in their flags
MaxRows == 3
\* rows a loaded file holds at most, where the rows vary in their dates or
\* the frame in its columns
FewRows == 1
\* doctors named in a file: 1..NumDoctors
NumDoctors == 2
\* calendar days 1..MaxDay
MaxDay == 2

----------------------------------------------------------------------------
(* Values *)

\* A timestamp is a calendar day and a time of day; tick 0 is midnight
\* (what pd.Timestamp(date) yields), tick 1 any later time of that day.
Ticks == {0, 1}
Days == 1..MaxDay
\* NaT: an absent or unparseable date (pd.to_datetime(errors='coerce'))
NaT == [day |-> 0, tick |-> 0]
Timestamps == [day : Days, tick : Ticks]
IsNaT(t) == t.day = 0

\* NaN cell of a string column
NaN == "NaN"

\* x == '健康小屋-yey'
HealthHutLabel == "hut"

\* pd.Timestamp(d) for a datetime.date d: midnight of that day
Timestamp(d) == [day |-> d, tick |-> 0]

\* a <= b on datetime64 values; any comparison with NaT is False
TsLeq(a, b) ==
    /\ ~IsNaT(a)
    /\ ~IsNaT(b)
    /\ \/ a.day < b.day
       \/ a.day = b.day /\ a.tick <= b.tick

\* Series.dt.date: the calendar date of a timestamp, NaT stays NaT (day 0)
dt_date(t) == t.day

\* date == date on two .dt.date columns; NaT equals nothing
DateEq(a, b) == a # 0 /\ b # 0 /\ a = b

----------------------------------------------------------------------------
(* Bags of rows *)

\* df[mask]: the rows of B the mask holds of (the set S), with their
\* multiplicity
BagFilter(B, S) == [r \in S |-> B[r]]

RECURSIVE SumOver(_, _, _)
\* sum of the column g (a value per row) over the rows of the bag B in S
SumOver(B, S, g) ==
    IF S = {} THEN 0
    ELSE LET r == CHOOSE x \in S : TRUE
         IN  B[r] * g[r] + SumOver(B, S \ {r}, g)

\* Series.sum() of the column g (a value per row) over the bag B
BagSum(B, g) == SumOver(B, DOMAIN B, g)

----------------------------------------------------------------------------
(* Rates: a float quotient n / d is kept as the fraction in lowest terms,   *)
(* so that two rates are the same float iff they are the same pair.        *)
(* <<1, 0>> is inf (k / 0 with k > 0), <<0, 0>> is NaN (0 / 0).            *)

RECURSIVE Gcd(_, _)
Gcd(a, b) == IF b = 0 THEN a ELSE Gcd(b, a % b)

Inf == <<1, 0>>
NaNRate == <<0, 0>>
Zero == <<0, 1>>

IsNaNRate(v) == v = NaNRate
IsInf(v) == v = Inf

\* v < w as floats (neither is NaN)
RateLess(v, w) ==
    IF IsInf(w) THEN ~IsInf(v)
    ELSE IF IsInf(v) THEN FALSE
    ELSE v[1] * w[2] < w[1] * v[2]

\* Series / Series of two integer count columns, element-wise (numpy
\* float division: no exception, k / 0 is inf and 0 / 0 is NaN)
divide(n, d) ==
    IF d = 0 THEN (IF n = 0 THEN NaNRate ELSE Inf)
    ELSE LET g == Gcd(n, d) IN <<n \div g, d \div g>>

----------------------------------------------------------------------------
(* preprocess_data *)

\* the doctor cell of a row whose 诊疗医生 is empty (NaN)
NoDoctor == 0

\* lambda x: 1 if x == '是' or x == 1 else 0   ("yes" is '是', "1" the number 1)
flag_to_int(x) == IF x = "yes" \/ x = "1" THEN 1 ELSE 0

\* one raw row after preprocess_data: the four flags become 0 / 1
preprocess_row(raw) ==
    [raw EXCEPT !.local_file = flag_to_int(raw.local_file),
                !.ext_file = flag_to_int(raw.ext_file),
                !.local_sign = flag_to_int(raw.local_sign),
                !.ext_sign = flag_to_int(raw.ext_sign)]

\* df.dropna(subset=['就诊日期']): a row without a parseable visit date is dropped
dropped_by_preprocess(raw) == IsNaT(raw.visit)

\* a flag cell that the file holds as a number, as it is read
number_cell(x) == CASE x = "1" -> 1 [] x = "0" -> 0

\* one raw row of a frame without 就诊日期: preprocess_data returns the frame
\* as read, before it reaches the flags
unprocessed_row(raw) ==
    [raw EXCEPT !.local_file = number_cell(raw.local_file),
                !.ext_file = number_cell(raw.ext_file),
                !.local_sign = number_cell(raw.local_sign),
                !.ext_sign = number_cell(raw.ext_sign)]

----------------------------------------------------------------------------
(* calculate_doctor_performance: row-level steps *)

required_columns ==
    {"doctor", "pid", "local_file", "ext_file", "local_sign", "ext_sign"}

\* mask = (df['就诊日期'] >= pd.Timestamp(start_date)) & (df['就诊日期'] <= pd.Timestamp(end_date))
window_mask(r, s, e) ==
    /\ TsLeq(Timestamp(s), r.visit)
    /\ TsLeq(r.visit, Timestamp(e))

\* df = df.loc[mask]
window_filter(B, s, e) == BagFilter(B, {r \in DOMAIN B : window_mask(r, s, e)})

\* if '就诊日期' in df.columns and start_date and end_date: the filter runs
\* and df becomes a new frame; otherwise df stays the caller's frame
filtered(c) == "visit_date" \in c

\* the frame the stages work on
working_frame(c, B, s, e) == IF filtered(c) THEN window_filter(B, s, e) ELSE B

\* if '建档日期' in df.columns and '就诊日期' in df.columns
new_file_stage(c) == "file_date" \in c /\ "visit_date" \in c

\* if '签约日期' in df.columns
new_sign_stage(c) == "sign_date" \in c

\* mutant of missing_cols: the check stops at the first missing column
first_missing_col(c) ==
    IF required_columns \ c = {} THEN {}
    ELSE {CHOOSE x \in required_columns \ c : TRUE}

\* missing_cols = [col for col in required_columns if col not in df.columns]
missing_cols(c) == required_columns \ c

\* df['健康小屋-yey']
hut(c, r) ==
    IF "team" \in c
    THEN (IF r.team = HealthHutLabel THEN 1 ELSE 0)
    ELSE 0

\* mutant of non_hut_local_sign: the health-hut rows are not carved out
local_sign_with_hut(c, r) == r.local_sign

\* df['非健康小屋的本机构签约']
non_hut_local_sign(c, r) == IF hut(c, r) = 0 THEN r.local_sign ELSE 0

\* df['未建档'] = (df['是否本机构建档'] == 0).astype(int)
unfiled(r) == IF r.local_file = 0 THEN 1 ELSE 0

\* df['未签约'] = (df['非健康小屋的本机构签约'] == 0).astype(int)
unsigned(c, r) == IF non_hut_local_sign(c, r) = 0 THEN 1 ELSE 0

\* ('身份证号', 'count'): the cells of the group that are not NaN
count_pid(g) == BagSum(g, [r \in DOMAIN g |-> IF r.pid = NaN THEN 0 ELSE 1])

\* groupby('诊疗医生'): the group keys; rows with a NaN key are left out
group_keys(df) == {r.doctor : r \in DOMAIN df} \ {NoDoctor}

\* the rows of one group
group(df, k) == BagFilter(df, {r \in DOMAIN df : r.doctor = k})

\* df.groupby('诊疗医生', as_index=False).agg(...): one group's row
agg_row(c, df, k) ==
    LET g == group(df, k)
    IN  [doctor |-> k,
         visits |-> count_pid(g),
         local_file_n |-> BagSum(g, [r \in DOMAIN g |-> r.local_file]),
         ext_file_n |-> BagSum(g, [r \in DOMAIN g |-> r.ext_file]),
         remaining_unfiled |-> BagSum(g, [r \in DOMAIN g |-> unfiled(r)]),
         local_sign_n |-> BagSum(g, [r \in DOMAIN g |-> non_hut_local_sign(c, r)]),
         ext_sign_n |-> BagSum(g, [r \in DOMAIN g |-> r.ext_sign]),
         hut_n |-> BagSum(g, [r \in DOMAIN g |-> hut(c, r)]),
         remaining_unsigned |-> BagSum(g, [r \in DOMAIN g |-> unsigned(c, r)])]

\* grouped['建档率'] = grouped['本机构建档人数'] / grouped['今日就诊人数']
file_rate(a) == divide(a.local_file_n, a.visits)

\* grouped['签约率'] = grouped['本机构签约人数'] / grouped['今日就诊人数']
sign_rate(a) == divide(a.local_sign_n, a.visits)

\* mutant of dense_rank: rank(method='dense') with the default ascending=True
dense_rank_ascending(V, v) == 1 + Cardinality({w \in V : RateLess(w, v)})

\* Series.rank(ascending=False, method='dense') of the value v in a column
\* whose values are V: 1 + the number of distinct larger values
dense_rank(V, v) == 1 + Cardinality({w \in V : RateLess(v, w)})

\* new_file_mask
new_file_mask(r, s, e) ==
    /\ DateEq(dt_date(r.file_date), dt_date(r.visit))
    /\ r.local_file = 1
    /\ TsLeq(Timestamp(s), r.file_date)
    /\ TsLeq(r.file_date, Timestamp(e))

\* new_sign_mask before the team split
sign_in_window_mask(r, s, e) ==
    /\ TsLeq(Timestamp(s), r.sign_date)
    /\ TsLeq(r.sign_date, Timestamp(e))
    /\ r.local_sign = 1

\* health_hut_mask = new_sign_mask & (df['团队名称'] == '健康小屋-yey')
health_hut_mask(r, s, e) ==
    sign_in_window_mask(r, s, e) /\ r.team = HealthHutLabel

\* new_sign_mask = new_sign_mask & (df['团队名称'] != '健康小屋-yey')
new_sign_mask(r, s, e) ==
    sign_in_window_mask(r, s, e) /\ r.team # HealthHutLabel

\* the NaN that a left merge writes into the count of a row without a match
NaNCount == -1

\* Series.fillna(0).astype(int) on a count
fillna_int(v) == IF v = NaNCount THEN 0 ELSE v

\* mutant of new_rate: the division without its guard
new_rate_unguarded(new, remaining) == divide(new, remaining + new)

\* lambda row: new / (remaining + new) if remaining > 0 else 0
new_rate(new, remaining) ==
    IF remaining > 0 THEN divide(new, remaining + new) ELSE Zero

----------------------------------------------------------------------------
(* calculate_doctor_performance: the tables *)

RECURSIVE SortSet(_)
\* the group keys in ascending order (groupby sorts its keys)
SortSet(S) ==
    IF S = {} THEN <<>>
    ELSE LET m == CHOOSE x \in S : \A y \in S : x <= y
         IN  <<m>> \o SortSet(S \ {m})

\* new_file_df = df[new_file_mask].copy()
new_file_rows(df, s, e) ==
    BagFilter(df, {r \in DOMAIN df : new_file_mask(r, s, e)})

\* health_hut_sign_df = df[health_hut_mask].copy()
health_hut_sign_rows(df, s, e) ==
    BagFilter(df, {r \in DOMAIN df : health_hut_mask(r, s, e)})

\* new_sign_df = df[new_sign_mask].copy()
new_sign_rows(df, s, e) ==
    BagFilter(df, {r \in DOMAIN df : new_sign_mask(r, s, e)})

\* sub.groupby('诊疗医生', as_index=False).agg(n=(f, 'sum')): one row per
\* doctor of the subset sub, with the sum of its flag column f
sub_grouped(sub, f) ==
    LET ks == SortSet(group_keys(sub))
    IN  [i \in 1..Len(ks) |->
            LET g == group(sub, ks[i])
            IN  [doctor |-> ks[i], n |-> BagSum(g, [r \in DOMAIN g |-> r[f]])]]

\* the rows of right that match the row l of the left table, joined to it;
\* the count of right becomes the column f
joined(l, right, f) ==
    LET hits == SelectSeq(right, LAMBDA x : x.doctor = l.doctor)
    IN  [j \in 1..Len(hits) |-> l @@ (f :> hits[j].n)]

RECURSIVE merge_inner(_, _, _)
\* mutant of merge_left: how='inner', a left row without a match is dropped
merge_inner(left, right, f) ==
    IF left = <<>> THEN <<>>
    ELSE joined(Head(left), right, f) \o merge_inner(Tail(left), right, f)

RECURSIVE merge_left(_, _, _)
\* pd.merge(left, right, on='诊疗医生', how='left'): every left row in order,
\* once per matching right row, or once with NaN when nothing matches
merge_left(left, right, f) ==
    IF left = <<>> THEN <<>>
    ELSE LET l == Head(left)
             m == joined(l, right, f)
         IN  (IF m = <<>> THEN <<l @@ (f :> NaNCount)>> ELSE m)
                 \o merge_left(Tail(left), right, f)

\* grouped[f] = grouped[f].fillna(0).astype(int)
fill_count(t, f) ==
    [i \in 1..Len(t) |-> [t[i] EXCEPT ![f] = fillna_int(@)]]

\* the stage "新建档统计" on the table t: 新建档人数 merged in and filled; the
\* column holds 0 and is not in the table when the stage does not run
new_file_n(c, t, df, s, e) ==
    IF new_file_stage(c)
    THEN fill_count(merge_left(t, sub_grouped(new_file_rows(df, s, e), "local_file"),
                               "new_file_n"),
                    "new_file_n")
    ELSE [i \in 1..Len(t) |-> t[i] @@ ("new_file_n" :> 0)]

\* the stage "新签约统计" on the table t: 新签约人数 merged in and filled
new_sign_n(c, t, df, s, e) ==
    IF new_sign_stage(c)
    THEN fill_count(merge_left(t, sub_grouped(new_sign_rows(df, s, e), "local_sign"),
                               "new_sign_n"),
                    "new_sign_n")
    ELSE [i \in 1..Len(t) |-> t[i] @@ ("new_sign_n" :> 0)]

\* mutant of new_file_rate: the earlier formula, over all visits
new_file_rate_by_visits(a, n) == divide(n, a.visits)

\* grouped['新建档率']
new_file_rate(a, n) == new_rate(n, a.remaining_unfiled)

\* grouped['新签约率']
new_sign_rate(a, n) == new_rate(n, a.remaining_unsigned)

\* the rates of a row a that has its counts, before ranking
stat_row(a) ==
    a @@ [file_rate |-> file_rate(a),
          sign_rate |-> sign_rate(a),
          new_file_rate |-> new_file_rate(a, a.new_file_n),
          new_sign_rate |-> new_sign_rate(a, a.new_sign_n)]

\* the five rank columns added to the rows t
with_ranks(t) ==
    LET col(f) == {t[i][f] : i \in 1..Len(t)}
        cnt == {<<t[i].new_sign_n, 1>> : i \in 1..Len(t)}
    IN  [i \in 1..Len(t) |->
            t[i] @@ [file_rate_rank |-> dense_rank(col("file_rate"), t[i].file_rate),
                     sign_rate_rank |-> dense_rank(col("sign_rate"), t[i].sign_rate),
                     new_file_rate_rank |->
                        dense_rank(col("new_file_rate"), t[i].new_file_rate),
                     new_sign_rate_rank |->
                        dense_rank(col("new_sign_rate"), t[i].new_sign_rate),
                     new_sign_n_rank |-> dense_rank(cnt, <<t[i].new_sign_n, 1>>)]]

\* grouped: one row per group key in key order, then the two merges, the
\* rates and the ranks
grouped_table(c, df, s, e) ==
    LET ks == SortSet(group_keys(df))
        grouped == [i \in 1..Len(ks) |-> agg_row(c, df, ks[i])]
        merged == new_sign_n(c, new_file_n(c, grouped, df, s, e), df, s, e)
    IN  with_ranks([i \in 1..Len(merged) |-> stat_row(merged[i])])

base_columns == {"doctor", "visits"}
file_columns ==
    {"local_file_n", "ext_file_n", "remaining_unfiled", "file_rate", "file_rate_rank"}
sign_columns ==
    {"local_sign_n", "ext_sign_n", "hut_n", "remaining_unsigned", "sign_rate",
     "sign_rate_rank"}
new_file_columns == {"new_file_n", "new_file_rate", "new_file_rate_rank"}
new_sign_columns ==
    {"new_sign_n", "new_sign_n_rank", "new_sign_rate", "new_sign_rate_rank"}

\* the columns of the returned table
final_columns(c) ==
    base_columns \cup file_columns \cup sign_columns
    \cup (IF new_file_stage(c) THEN new_file_columns ELSE {})
    \cup (IF new_sign_stage(c) THEN new_sign_columns ELSE {})

\* .rank(...).astype(int) raises when a rank is NaN, which is the rank of a
\* NaN rate
rank_cast_raises(c, df) ==
    \E k \in group_keys(df) :
        LET a == agg_row(c, df, k)
        IN  IsNaNRate(file_rate(a)) \/ IsNaNRate(sign_rate(a))

\* df['团队名称'] in the signing stage raises KeyError when the frame has no
\* such column
team_lookup_raises(c) == new_sign_stage(c) /\ "team" \notin c

NoResult ==
    [status |-> "none", error |-> {}, columns |-> {}, table |-> <<>>,
     subsets |-> {}, new_file_df |-> EmptyBag, new_sign_df |-> EmptyBag,
     health_hut_sign_df |-> EmptyBag]

\* On a frame without rows the two DataFrame.apply(..., axis=1) calls and the
\* groupby / merge / rank steps yield empty columns (apply infers a reduction
\* from its lambda, as pandas 2 does), so the stages below run on it as on
\* any other frame.
\* what a call yields: status "schema_error" is the early return of
\* (pd.DataFrame(), None, None, None) after st.error, "raised" an exception
\* leaving the function, "ok" the final return.  subsets names the returned
\* subset tables that are not None.
calculate_doctor_performance(c, B, s, e) ==
    LET df == working_frame(c, B, s, e)
    IN  IF missing_cols(c) # {}
        THEN [NoResult EXCEPT !.status = "schema_error", !.error = missing_cols(c)]
        ELSE IF rank_cast_raises(c, df)
        THEN [NoResult EXCEPT !.status = "raised", !.error = {"IntCastingNaNError"}]
        ELSE IF team_lookup_raises(c)
        THEN [NoResult EXCEPT !.status = "raised", !.error = {"KeyError"}]
        ELSE [status |-> "ok",
              error |-> {},
              columns |-> final_columns(c),
              table |-> grouped_table(c, df, s, e),
              subsets |-> (IF new_file_stage(c) THEN {"new_file_df"} ELSE {})
                          \cup (IF new_sign_stage(c)
                                THEN {"new_sign_df", "health_hut_sign_df"} ELSE {}),
              new_file_df |->
                  IF new_file_stage(c) THEN new_file_rows(df, s, e) ELSE EmptyBag,
              new_sign_df |->
                  IF new_sign_stage(c) THEN new_sign_rows(df, s, e) ELSE EmptyBag,
              health_hut_sign_df |->
                  IF new_sign_stage(c) THEN health_hut_sign_rows(df, s, e)
                  ELSE EmptyBag]

\* the columns df['...'] = ... adds before the grouping
helper_columns == {"hut", "non_hut_local_sign", "unfiled", "unsigned"}

\* the columns of the caller's frame once the call has ended: the helper
\* columns are assigned on df, which is the caller's frame when the filter
\* did not run; the schema check returns before the first assignment
columns_after_call(c) ==
    IF filtered(c) \/ missing_cols(c) # {} THEN c ELSE c \cup helper_columns

----------------------------------------------------------------------------
(* The session: main() reads the uploaded file row by row into a frame,     *)
(* runs preprocess_data on it, and the button runs the engine once.        *)

optional_columns == {"visit_date", "file_date", "sign_date", "team"}
all_columns == required_columns \cup optional_columns

\* a frame without column x has no cell for it: every row reads the same
blank(c, r) ==
    [doctor |-> IF "doctor" \in c THEN r.doctor ELSE NoDoctor,
     pid |-> IF "pid" \in c THEN r.pid ELSE NaN,
     visit |-> IF "visit_date" \in c THEN r.visit ELSE NaT,
     file_date |-> IF "file_date" \in c THEN r.file_date ELSE NaT,
     sign_date |-> IF "sign_date" \in c THEN r.sign_date ELSE NaT,
     local_file |-> IF "local_file" \in c THEN r.local_file ELSE 0,
     ext_file |-> IF "ext_file" \in c THEN r.ext_file ELSE 0,
     local_sign |-> IF "local_sign" \in c THEN r.local_sign ELSE 0,
     ext_sign |-> IF "ext_sign" \in c THEN r.ext_sign ELSE 0,
     team |-> IF "team" \in c THEN r.team ELSE NaN]

\* the raw rows a file may hold, field by field
RawRows(D, P, V, F, S, LF, EF, LS, ES, T) ==
    [doctor : D, pid : P, visit : V, file_date : F, sign_date : S,
     local_file : LF, ext_file : EF, local_sign : LS, ext_sign : ES, team : T]

\* preprocess_data on one row of the file as the frame with columns c
\* holds it: the empty bag when the row is dropped
preprocess_data(c, raw) ==
    IF "visit_date" \notin c THEN SetToBag({blank(c, unprocessed_row(raw))})
    ELSE IF dropped_by_preprocess(raw) THEN EmptyBag
    ELSE SetToBag({blank(c, preprocess_row(raw))})

\* pd.read_csv / pd.read_excel and preprocess_data, one row of the file;
\* limit bounds the rows of the file
AppendRecord(raw, limit) ==
    /\ pc = "load"
    /\ BagCardinality(rows) < limit
    /\ rows' = rows (+) preprocess_data(cols, raw)
    /\ UNCHANGED <<cols, start_date, end_date, pc, out, session_state>>

\* the body of the button "计算绩效指标": one call of the engine on the frame
\* and window; what it returns is stored in st.session_state, and an
\* exception leaves the stored result as it was
call_engine ==
    /\ out' = calculate_doctor_performance(cols, rows, start_date, end_date)
    /\ session_state' = IF out'.status = "raised" THEN session_state ELSE out'
    /\ cols' = columns_after_call(cols)
    /\ UNCHANGED <<rows, start_date, end_date>>

\* the button pressed on the loaded file
Calculate ==
    /\ pc = "load"
    /\ call_engine
    /\ pc' = "done"

\* a second call on the frame and window of the first
CalculateAgain ==
    /\ pc = "done"
    /\ call_engine
    /\ pc' = "again"

RECURSIVE read_file(_, _)
\* pd.read_csv / pd.read_excel and preprocess_data on a whole file, a
\* sequence of raw rows, read as a frame with columns c
read_file(c, file) ==
    IF file = <<>> THEN EmptyBag
    ELSE preprocess_data(c, Head(file)) (+) read_file(c, Tail(file))

\* min_date / max_date: the first and last visit day of the frame B, the
\* defaults and the limits of the two date pickers
min_date(B) ==
    CHOOSE d \in {r.visit.day : r \in DOMAIN B} :
        \A r \in DOMAIN B : d <= r.visit.day
max_date(B) ==
    CHOOSE d \in {r.visit.day : r \in DOMAIN B} :
        \A r \in DOMAIN B : r.visit.day <= d

\* another file is put into the uploader and the script reruns: the frame
\* is read anew; the date pickers keep their dates when their defaults and
\* limits are those of the run before, and start from the defaults
\* otherwise.  st.session_state keeps its results.
UploadFile(file) ==
    LET B == read_file(cols, file)
    IN  /\ pc \in {"idle", "load", "done"}
        /\ B # EmptyBag
        /\ B # rows
        /\ rows' = B
        /\ IF pc # "idle" /\ min_date(B) = min_date(rows)
                          /\ max_date(B) = max_date(rows)
           THEN UNCHANGED <<start_date, end_date>>
           ELSE start_date' = min_date(B) /\ end_date' = max_date(B)
        /\ pc' = "load"
        /\ UNCHANGED <<cols, out, session_state>>

\* a date picker is set to another date within its limits and the script
\* reruns; st.session_state keeps its results
ChangeWindow(s, e) ==
    /\ pc \in {"load", "done"}
    /\ {s, e} \subseteq min_date(rows)..max_date(rows)
    /\ <<s, e>> # <<start_date, end_date>>
    /\ start_date' = s
    /\ end_date' = e
    /\ pc' = "load"
    /\ UNCHANGED <<cols, rows, out, session_state>>

\* what a run of the script shows and offers for download: the stored
\* results, if performance_df is neither None nor empty
displayed ==
    /\ pc \in {"load", "done"}
    /\ session_state.status # "none"
    /\ session_state.table # <<>>

InitWith(C, W) ==
    /\ cols \in C
    /\ rows = EmptyBag
    /\ \E w \in W : start_date = w[1] /\ end_date = w[2]
    /\ pc = "load"
    /\ out = NoResult
    /\ session_state = NoResult

Doctors == 1..NumDoctors
Windows == Days \X Days

----------------------------------------------------------------------------
(* Spec: the counts of a group.  Every column is present, the window is    *)
(* day 1 and every visit is at midnight of day 1; a row may lack its       *)
(* 身份证号, and has a 建档日期 (that of the visit) only if it is filed     *)
(* locally.                                                                *)

AggRows ==
    {r \in RawRows(Doctors, {"p", NaN}, {Timestamp(1)}, {NaT, Timestamp(1)},
                   {NaT}, {"yes", "no"}, {"no"}, {"yes", "no"}, {"no"},
                   {"other"}) :
        r.local_file = "no" => r.file_date = NaT}

Init == InitWith({all_columns}, {<<1, 1>>})

Next ==
    \/ \E raw \in AggRows : AppendRecord(raw, MaxRows)
    \/ Calculate

Spec == Init /\ [][Next]_vars

----------------------------------------------------------------------------
(* SpecRates: the rates and their ranks.  One more doctor, every 身份证号   *)
(* present; a row is not filed, filed earlier (no date in the file) or     *)
(* filed on its visit day, and likewise signed.                            *)

RateDoctors == 1..(NumDoctors + 1)

RateRows ==
    {r \in RawRows(RateDoctors, {"p"}, {Timestamp(1)}, {NaT, Timestamp(1)},
                   {NaT, Timestamp(1)}, {"yes", "no"}, {"no"}, {"yes", "no"},
                   {"no"}, {"other"}) :
        /\ r.local_file = "no" => r.file_date = NaT
        /\ r.local_sign = "no" => r.sign_date = NaT}

NextRates ==
    \/ \E raw \in RateRows : AppendRecord(raw, MaxRows)
    \/ Calculate

SpecRates == Init /\ [][NextRates]_vars

----------------------------------------------------------------------------
(* SpecSign: the health-hut carve-out.  Rows vary in the signing flag, the *)
(* team (the health hut, another team, an empty cell) and the signing date.*)

SignRows ==
    RawRows(Doctors, {"p"}, {Timestamp(1)}, {NaT}, {NaT, Timestamp(1)},
            {"no"}, {"no"}, {"yes", "no"}, {"no"}, {HealthHutLabel, "other", NaN})

NextSign ==
    \/ \E raw \in SignRows : AppendRecord(raw, MaxRows)
    \/ Calculate

SpecSign == Init /\ [][NextSign]_vars

----------------------------------------------------------------------------
(* SpecWindow: the dates.  Any window over the days, inverted ones too;    *)
(* a row's visit and filing dates are any timestamp, or absent.            *)

WindowRows ==
    RawRows({1}, {"p"}, Timestamps \cup {NaT}, Timestamps \cup {NaT}, {NaT},
            {"yes", "no"}, {"no"}, {"no"}, {"no"}, {"other"})

InitWindow == InitWith({all_columns}, Windows)

NextWindow ==
    \/ \E raw \in WindowRows : AppendRecord(raw, FewRows)
    \/ Calculate

SpecWindow == InitWindow /\ [][NextWindow]_vars

----------------------------------------------------------------------------
(* SpecSchema: the columns.  The frame has any set of columns that holds   *)
(* 就诊日期; any window; a row visits at midnight of some day.              *)

SchemaCols == {c \in SUBSET all_columns : "visit_date" \in c}

SchemaRows ==
    RawRows({1}, {"p"}, {Timestamp(d) : d \in Days}, {Timestamp(1)},
            {Timestamp(1)}, {"yes"}, {"no"}, {"yes"}, {"no"}, {"other"})

InitSchema == InitWith(SchemaCols, Windows)

NextSchema ==
    \/ \E raw \in SchemaRows : AppendRecord(raw, FewRows)
    \/ Calculate

SpecSchema == InitSchema /\ [][NextSchema]_vars

----------------------------------------------------------------------------
(* SpecSignDates: the signing dates.  Any window; a row visits at midnight *)
(* of some day and is signed at any timestamp or not at all, with any team *)
(* cell.                                                                   *)

SignDateRows ==
    RawRows({1}, {"p"}, {Timestamp(d) : d \in Days}, {NaT},
            Timestamps \cup {NaT}, {"no"}, {"no"}, {"yes", "no"}, {"no"},
            {HealthHutLabel, "other", NaN})

NextSignDates ==
    \/ \E raw \in SignDateRows : AppendRecord(raw, FewRows)
    \/ Calculate

SpecSignDates == InitWindow /\ [][NextSignDates]_vars

----------------------------------------------------------------------------
(* SpecTwice: two calls in a row.  The frame has every required column and *)
(* any of the others; a row holds numbers for its flags and typed dates.   *)

TwiceCols == {c \in SUBSET all_columns : required_columns \subseteq c}

TwiceRows ==
    RawRows({1}, {"p"}, {Timestamp(d) : d \in Days}, {Timestamp(1)},
            {Timestamp(1)}, {"1", "0"}, {"0"}, {"1", "0"}, {"0"},
            {HealthHutLabel, "other"})

InitTwice == InitWith(TwiceCols, Windows)

NextTwice ==
    \/ \E raw \in TwiceRows : AppendRecord(raw, FewRows)
    \/ Calculate
    \/ CalculateAgain

SpecTwice == InitTwice /\ [][NextTwice]_vars

----------------------------------------------------------------------------
(* SpecSession: a session of main().  Files are uploaded one after the     *)
(* other, the window is changed and the button is pressed, in any order.   *)
(* Every column is present; a row visits at midnight of some day and is    *)
(* either filed on that day or not filed.                                  *)

SessionRows ==
    {r \in RawRows({1}, {"p"}, {Timestamp(d) : d \in Days},
                   {NaT} \cup {Timestamp(d) : d \in Days}, {NaT},
                   {"yes", "no"}, {"no"}, {"no"}, {"no"}, {"other"}) :
        r.file_date = IF r.local_file = "yes" THEN r.visit ELSE NaT}

SessionFiles == UNION {[1..n -> SessionRows] : n \in 1..MaxRows}

\* no file is in the uploader yet
InitSession ==
    /\ cols = all_columns
    /\ rows = EmptyBag
    /\ start_date = 1
    /\ end_date = 1
    /\ pc = "idle"
    /\ out = NoResult
    /\ session_state = NoResult

NextSession ==
    \/ \E file \in SessionFiles : UploadFile(file)
    \/ \E s, e \in Days : ChangeWindow(s, e)
    \/ Calculate

SpecSession == InitSession /\ [][NextSession]_vars

----------------------------------------------------------------------------
(* What the claims speak of *)

\* the call has ended, one way or another
Done == pc = "done"
\* the call returned its tables
Returned == Done /\ out.status = "ok"

\* the windowed record set the call worked on
Windowed == window_filter(rows, start_date, end_date)

\* the rows of the returned table
TableRows == {out.table[i] : i \in DOMAIN out.table}

\* how many rows of the bag B are of doctor k and in the set S
NumRows(B, k, S) ==
    BagCardinality([r \in {x \in DOMAIN B \cap S : x.doctor = k} |-> B[r]])

\* every row there is
AnyRow == RawRows({NoDoctor} \cup RateDoctors, {"p", NaN}, Timestamps \cup {NaT},
                  Timestamps \cup {NaT}, Timestamps \cup {NaT}, {0, 1}, {0, 1},
                  {0, 1}, {0, 1}, {HealthHutLabel, "other", NaN})
HasPid == {r \in AnyRow : r.pid # NaN}

\* the doctors of the windowed record set
WindowedDoctors == {r.doctor : r \in DOMAIN Windowed} \ {NoDoctor}

----------------------------------------------------------------------------
(* C1: in every returned table, each doctor's visit count is the number of *)
(* that doctor's rows in the windowed record set, and local-registered     *)
(* count + remaining-unregistered count = visit count.                     *)
C1_CountsAddUp ==
    Returned =>
        \A t \in TableRows :
            /\ t.visits = NumRows(Windowed, t.doctor, AnyRow)
            /\ t.local_file_n + t.remaining_unfiled = t.visits

(* C2: in every returned table, a doctor with visit count > 0 has          *)
(* 0 <= local-registered count <= visit count, so a registration rate in   *)
(* [0, 1].                                                                 *)
C2_FileRateInUnitInterval ==
    Returned =>
        \A t \in TableRows :
            t.visits > 0 =>
                /\ 0 <= t.local_file_n
                /\ t.local_file_n <= t.visits
                /\ t.file_rate[2] > 0
                /\ 0 <= t.file_rate[1]
                /\ t.file_rate[1] <= t.file_rate[2]

(* C3: a rate whose denominator is zero for a doctor is 0 for that doctor, *)
(* and the call still returns the table: the two base rates when the       *)
(* doctor's visit count (the counted 身份证号 cells) is 0, the two new      *)
(* rates when remaining + new is 0.                                        *)
C3_ZeroDenominatorGivesZero ==
    Done =>
        \A k \in WindowedDoctors :
            /\ NumRows(Windowed, k, HasPid) = 0 =>
                   /\ Returned
                   /\ \A t \in TableRows :
                          t.doctor = k => t.file_rate = Zero /\ t.sign_rate = Zero
            /\ Returned =>
                   \A t \in TableRows :
                       /\ t.remaining_unfiled + t.new_file_n = 0
                              => t.new_file_rate = Zero
                       /\ t.remaining_unsigned + t.new_sign_n = 0
                              => t.new_sign_rate = Zero

----------------------------------------------------------------------------
\* the ranked columns with their rank columns
RankedColumns ==
    {<<"file_rate", "file_rate_rank">>, <<"sign_rate", "sign_rate_rank">>,
     <<"new_file_rate", "new_file_rate_rank">>,
     <<"new_sign_rate", "new_sign_rate_rank">>,
     <<"new_sign_n", "new_sign_n_rank">>}

\* the value of column f in row t as a fraction (a count n is n / 1)
ValueOf(t, f) == IF f = "new_sign_n" THEN <<t[f], 1>> ELSE t[f]

\* v > w for two finite fractions
Greater(v, w) == v[1] * w[2] > w[1] * v[2]

(* C4: for each ranked column of a returned table the ranks are dense and  *)
(* descending: the ranks are exactly 1..k for k distinct values, two       *)
(* doctors share a rank iff they share the value, and a larger value has a *)
(* smaller rank; the ranks are determined by that column's values alone.   *)
C4_DenseDescendingRanks ==
    Returned =>
        \A p \in RankedColumns :
            p[2] \in out.columns =>
                LET vals == {ValueOf(t, p[1]) : t \in TableRows}
                IN  /\ {t[p[2]] : t \in TableRows} = 1..Cardinality(vals)
                    /\ \A t, u \in TableRows :
                          /\ (t[p[2]] = u[p[2]])
                                 <=> (ValueOf(t, p[1]) = ValueOf(u, p[1]))
                          /\ Greater(ValueOf(t, p[1]), ValueOf(u, p[1]))
                                 => t[p[2]] < u[p[2]]

\* three doctors, two of them tied on the registration rate above the third
C4_Witness ==
    /\ Returned
    /\ \E t, u, v \in TableRows :
          /\ t.doctor # u.doctor
          /\ t.file_rate = u.file_rate
          /\ Greater(t.file_rate, v.file_rate)
          /\ t.file_rate_rank = 1
          /\ v.file_rate_rank = 2
          /\ Greater(v.sign_rate, t.sign_rate)

\* the rows of a returned subset that are of doctor k
InSubset(B, k) == NumRows(B, k, AnyRow)

(* C5: in a returned table the new-registration rate of a doctor is        *)
(* newCount / (remainingUnregistered + newCount) when remainingUnregistered*)
(* > 0 and 0 when it is 0, newCount being the doctor's rows in             *)
(* NewRegistrations; the new-signing rate likewise from NewSignings and    *)
(* remainingUnsigned.                                                      *)
C5_NewRatesOverRemainingPool ==
    Returned =>
        \A t \in TableRows :
            /\ t.new_file_n = InSubset(out.new_file_df, t.doctor)
            /\ t.new_sign_n = InSubset(out.new_sign_df, t.doctor)
            /\ IF t.remaining_unfiled > 0
               THEN /\ t.new_file_rate[2] > 0
                    /\ t.new_file_rate[1] * (t.remaining_unfiled + t.new_file_n)
                           = t.new_file_n * t.new_file_rate[2]
               ELSE t.new_file_rate = Zero
            /\ IF t.remaining_unsigned > 0
               THEN /\ t.new_sign_rate[2] > 0
                    /\ t.new_sign_rate[1] * (t.remaining_unsigned + t.new_sign_n)
                           = t.new_sign_n * t.new_sign_rate[2]
               ELSE t.new_sign_rate = Zero

\* a doctor whose remaining pool plus new count differs from the visit
\* count, with new registrations and new signings
C5_Witness ==
    /\ Returned
    /\ \E t \in TableRows :
          /\ t.remaining_unfiled > 0 /\ t.new_file_n > 0
          /\ t.remaining_unfiled + t.new_file_n # t.visits
          /\ t.remaining_unsigned > 0 /\ t.new_sign_n > 0
          /\ t.remaining_unsigned + t.new_sign_n # t.visits

\* row predicates of the signing claims
InHut == {r \in AnyRow : r.team = HealthHutLabel}
SignedOutsideHut == {r \in AnyRow : r.local_sign = 1 /\ r.team # HealthHutLabel}
NotSignedOutsideHut == AnyRow \ SignedOutsideHut

(* C6: a windowed row of the health-hut team never counts in its doctor's  *)
(* local signing count and is never in NewSignings, whatever its signing   *)
(* flag; it counts in the doctor's health-hut count and in the remaining-  *)
(* unsigned count.                                                         *)
C6_HealthHutCarvedOut ==
    Returned =>
        /\ \A t \in TableRows :
              /\ t.local_sign_n = NumRows(Windowed, t.doctor, SignedOutsideHut)
              /\ t.hut_n = NumRows(Windowed, t.doctor, InHut)
              /\ t.remaining_unsigned
                     = NumRows(Windowed, t.doctor, NotSignedOutsideHut)
        /\ \A r \in DOMAIN out.new_sign_df : r \notin InHut

\* a health-hut row signed locally inside the window went through the call
C6_Witness ==
    /\ Returned
    /\ \E r \in DOMAIN Windowed :
          /\ r \in InHut
          /\ r.local_sign = 1
          /\ r.sign_date = Timestamp(start_date)
    /\ \E r \in DOMAIN out.new_sign_df : r.local_sign = 1

\* the calendar day d lies in the inclusive window
DayInWindow(d) == start_date <= d /\ d <= end_date

(* C7: the window filter keeps exactly the rows whose visit day lies in    *)
(* the inclusive calendar interval [start, end], whatever the time of day. *)
C7_WindowKeepsWholeDays ==
    Done =>
        \A r \in DOMAIN rows :
            (r \in DOMAIN Windowed) <=> DayInWindow(r.visit.day)

\* every returned subset, None or not, has no row
SubsetsEmpty ==
    /\ out.new_file_df = EmptyBag
    /\ out.new_sign_df = EmptyBag
    /\ out.health_hut_sign_df = EmptyBag

(* C8: when the windowed record set is empty, the call returns without     *)
(* raising: an empty table and empty subsets.                              *)
C8_EmptyWindowReturnsEmpty ==
    (Done /\ required_columns \subseteq cols /\ Windowed = EmptyBag) =>
        /\ Returned
        /\ out.table = <<>>
        /\ SubsetsEmpty

(* C9: when a required column is absent the call reports one schema error  *)
(* naming every missing column, and returns an empty table and no subset.  *)
C9_SchemaErrorNamesAllMissing ==
    (Done /\ ~(required_columns \subseteq cols)) =>
        /\ out.status = "schema_error"
        /\ out.error = {x \in required_columns : x \notin cols}
        /\ out.table = <<>>
        /\ out.columns = {}
        /\ out.subsets = {}
        /\ SubsetsEmpty

\* two required columns are absent and the file has a row inside the window
C9_Witness ==
    /\ Done
    /\ Cardinality(required_columns \ cols) >= 2
    /\ Windowed # EmptyBag
    /\ out.status = "schema_error"

(* C10: a windowed row is in NewRegistrations iff its registration day is  *)
(* its visit day, its local-registration flag is 1 and its registration    *)
(* day lies in the inclusive window (any time of day); a row without a     *)
(* registration date is never in it.                                       *)
C10_NewRegistrationsByDay ==
    Returned =>
        \A r \in DOMAIN Windowed :
            (r \in DOMAIN out.new_file_df)
                <=> /\ ~IsNaT(r.file_date)
                    /\ r.file_date.day = r.visit.day
                    /\ r.local_file = 1
                    /\ DayInWindow(r.file_date.day)

(* C11: NewSignings and HealthHutSignings partition the windowed rows that *)
(* have local-signing flag 1 and a signing day inside the inclusive window *)
(* [start, end]: such a row is in HealthHutSignings iff its team is the    *)
(* health hut and in NewSignings otherwise (an empty team cell included);  *)
(* no row is in both and no row failing the flag or the date test is in    *)
(* either.                                                                 *)
C11_SigningSubsetsPartition ==
    Returned =>
        \A r \in DOMAIN Windowed :
            LET qualifies == /\ r.local_sign = 1
                             /\ ~IsNaT(r.sign_date)
                             /\ DayInWindow(r.sign_date.day)
            IN  /\ (r \in DOMAIN out.health_hut_sign_df)
                        <=> (qualifies /\ r.team = HealthHutLabel)
                /\ (r \in DOMAIN out.new_sign_df)
                        <=> (qualifies /\ r.team # HealthHutLabel)

\* the indices of the rows of doctor k in the returned table
RowsOf(k) == {i \in DOMAIN out.table : out.table[i].doctor = k}

(* C12: the two left merges keep the provider set: the returned table has  *)
(* exactly one row per distinct doctor of the windowed record set, none    *)
(* dropped, added or duplicated, and a doctor without a row in the         *)
(* new-registration / new-signing subset has the integer count 0 there,    *)
(* never a missing value.                                                  *)
C12_MergesKeepProviders ==
    Returned =>
        /\ \A k \in WindowedDoctors : Cardinality(RowsOf(k)) = 1
        /\ \A t \in TableRows : t.doctor \in WindowedDoctors
        /\ \A t \in TableRows :
              /\ t.new_file_n \in Nat
              /\ t.new_sign_n \in Nat
              /\ InSubset(out.new_file_df, t.doctor) = 0 => t.new_file_n = 0
              /\ InSubset(out.new_sign_df, t.doctor) = 0 => t.new_sign_n = 0

\* one doctor has rows in both subsets, another doctor in neither
C12_Witness ==
    /\ Returned
    /\ \E t, u \in TableRows :
          /\ t.new_file_n > 0 /\ t.new_sign_n > 0
          /\ InSubset(out.new_file_df, u.doctor) = 0 /\ u.new_file_n = 0
          /\ InSubset(out.new_sign_df, u.doctor) = 0 /\ u.new_sign_n = 0

(* C13: two calls in a row with the same record set and window return the  *)
(* same results, and the first call leaves the record set it was given     *)
(* unchanged: no row removed, no helper column added, no flag altered.     *)
C13_CallLeavesInputAlone ==
    [][/\ (pc = "load" /\ pc' = "done") => (cols' = cols /\ rows' = rows)
       /\ (pc = "done" /\ pc' = "again") => out' = out]_vars

(* C14: a record set with a signing-date column and no team column is      *)
(* handled as having no health-hut record and the call completes: the      *)
(* health-hut count is 0 for every doctor, HealthHutSignings is empty, and *)
(* NewSignings holds every windowed row with local-signing flag 1 and a    *)
(* signing date in the window.                                             *)
C14_NoTeamColumnMeansNoHut ==
    (Done /\ required_columns \subseteq cols
          /\ "sign_date" \in cols /\ "team" \notin cols) =>
        /\ Returned
        /\ \A t \in TableRows : t.hut_n = 0
        /\ out.health_hut_sign_df = EmptyBag
        /\ out.new_sign_df =
              BagFilter(Windowed,
                        {r \in DOMAIN Windowed :
                            sign_in_window_mask(r, start_date, end_date)})

(* C15: in a session of main(), whatever files were uploaded, windows      *)
(* chosen and times the button was pressed, the table and the three subset *)
(* lists that are shown or exported are those computed from the file now   *)
(* uploaded and the window now selected: no result of an earlier input is  *)
(* shown under the new window's dates or exported with the new file's raw  *)
(* data.                                                                   *)
C15_ShownResultsAreCurrent ==
    displayed =>
        session_state =
            calculate_doctor_performance(cols, rows, start_date, end_date)

\* the rate v is a number in [0, 1)
BelowOne(v) == v[2] > 0 /\ 0 <= v[1] /\ v[1] < v[2]

(* C16: in every row of the returned table the new-registration count is   *)
(* at most the local-registered count and the new-signing count at most    *)
(* the local signing count; both new rates lie in [0, 1) and never reach   *)
(* 1: a doctor whose remaining count is 0 has the rate 0.                  *)
C16_NewRatesBelowOne ==
    Returned =>
        \A t \in TableRows :
            /\ t.new_file_n <= t.local_file_n
            /\ t.new_sign_n <= t.local_sign_n
            /\ BelowOne(t.new_file_rate)
            /\ BelowOne(t.new_sign_rate)
            /\ t.remaining_unfiled = 0 => t.new_file_rate = Zero
            /\ t.remaining_unsigned = 0 => t.new_sign_rate = Zero

\* a doctor whose every visit was filed and signed on the day: nothing
\* remains, and both new rates are 0
C16_Witness ==
    /\ Returned
    /\ \E t \in TableRows :
          /\ t.visits > 1
          /\ t.new_file_n = t.visits /\ t.remaining_unfiled = 0
          /\ t.new_sign_n = t.visits /\ t.remaining_unsigned = 0
          /\ t.new_file_rate = Zero /\ t.new_sign_rate = Zero

====
